---- MODULE Spec2Model ----
(***************************************************************************)
(* Model of the segment index of navrotska_fi-23_shevchenko_fi-23:         *)
(*   aaf-lab-var2.py  (variant "var2": bounding-box tree rebuilt on every  *)
(*                     insert)                                             *)
(*   aaf-lab.py       (variant "lab": binary search tree patched on every  *)
(*                     insert)                                             *)
(* A Python list [l, h] is the tuple <<l, h>> (seg[0] is seg[1] here), a   *)
(* dict is a function whose DOMAIN is the set of keys, None is the record  *)
(* None.  A command is the token list Lexer.tokenize hands to the Parser.  *)
(***************************************************************************)
EXTENDS Integers, Sequences, FiniteSets, TLC

VARIABLES variant, trees, hist, pc, cmd, result, printed, raised

vars == <<variant, trees, hist, pc, cmd, result, printed, raised>>

(* ------------------------------ bounds -------------------------------- *)
\* segment bounds and query numbers range over 0..MaxVal
MaxVal == 1
\* total number of successful inserts in one run
MaxInserts == 3

(* --------------------------- basic values ------------------------------ *)
None == [is_none |-> TRUE]

IsNone(x) == "is_none" \in DOMAIN x

Min(a, b) == IF a <= b THEN a ELSE b

Max(a, b) == IF a >= b THEN a ELSE b

COMMANDS == {"CREATE", "INSERT", "PRINT_TREE", "CONTAINS", "SEARCH"}

\* the decimal numerals the token vocabulary uses
NumStr == <<"0", "1", "2", "3", "4", "5", "6", "7", "8", "9">>

\* int(tok) succeeds on a token of digits and raises ValueError otherwise
IsInt(tok) == \E i \in 1..Len(NumStr) : NumStr[i] = tok

int(tok) == (CHOOSE i \in 1..Len(NumStr) : NumStr[i] = tok) - 1

\* str.upper() on the token vocabulary: lower-case words change, the
\* upper-case keywords, numerals and punctuation do not
upper(tok) ==
  CASE tok = "create" -> "CREATE"
    [] tok = "where"  -> "WHERE"
    [] tok = "a"      -> "A"
    [] tok = "b"      -> "B"
    [] tok = "x"      -> "X"
    [] OTHER          -> tok

(* ------------------- list.sort(key=lambda x: x[0]) -------------------- *)
\* the insertion step of a sort that is not stable: seg goes before the
\* elements whose key equals its own
RECURSIVE InsertByKey_before_equal(_, _)
InsertByKey_before_equal(sorted, seg) ==
  IF sorted = <<>> THEN <<seg>>
  ELSE IF seg[1] <= Head(sorted)[1] THEN <<seg>> \o sorted
  ELSE <<Head(sorted)>> \o InsertByKey_before_equal(Tail(sorted), seg)

\* place seg after every element whose key is <= its own (stable)
RECURSIVE InsertByKey(_, _)
InsertByKey(sorted, seg) ==
  IF sorted = <<>> THEN <<seg>>
  ELSE IF seg[1] < Head(sorted)[1] THEN <<seg>> \o sorted
  ELSE <<Head(sorted)>> \o InsertByKey(Tail(sorted), seg)

RECURSIVE SortFrom(_, _)
SortFrom(sorted, rest) ==
  IF rest = <<>> THEN sorted
  ELSE SortFrom(InsertByKey(sorted, Head(rest)), Tail(rest))

\* the list after segments.sort(key=lambda x: x[0]): ascending lower
\* bound, equal lower bounds keep their relative order
sort(segments) == SortFrom(<<>>, segments)

(* --------------------- aaf-lab-var2.py: RTreeNode ---------------------- *)
RTreeNode(is_leaf, segment) ==
  [is_leaf |-> is_leaf, segment |-> segment, children |-> <<>>,
   bbox |-> segment, left |-> None, right |-> None]

RECURSIVE MinOver(_)
MinOver(s) == IF Len(s) = 1 THEN s[1] ELSE Min(s[1], MinOver(Tail(s)))

RECURSIVE MaxOver(_)
MaxOver(s) == IF Len(s) = 1 THEN s[1] ELSE Max(s[1], MaxOver(Tail(s)))

\* update_bbox with the upper bound read from index 0 of the children's boxes
update_bbox_low_index(node) ==
  IF node.is_leaf
  THEN [node EXCEPT !.bbox =
          << MinOver([i \in 1..Len(node.children) |-> node.children[i][1]]),
             MaxOver([i \in 1..Len(node.children) |-> node.children[i][2]]) >>]
  ELSE [node EXCEPT !.bbox =
          << MinOver([i \in 1..Len(node.children) |-> node.children[i].bbox[1]]),
             MaxOver([i \in 1..Len(node.children) |-> node.children[i].bbox[1]]) >>]

\* the node after node.update_bbox()
update_bbox(node) ==
  IF node.is_leaf
  THEN [node EXCEPT !.bbox =
          << MinOver([i \in 1..Len(node.children) |-> node.children[i][1]]),
             MaxOver([i \in 1..Len(node.children) |-> node.children[i][2]]) >>]
  ELSE [node EXCEPT !.bbox =
          << MinOver([i \in 1..Len(node.children) |-> node.children[i].bbox[1]]),
             MaxOver([i \in 1..Len(node.children) |-> node.children[i].bbox[2]]) >>]

\* the build with the midpoint rounded up
RECURSIVE _build_tree_recursive_mid_up(_)
_build_tree_recursive_mid_up(segments) ==
  IF Len(segments) = 1
  THEN [node |-> update_bbox([RTreeNode(TRUE, segments[1])
                                EXCEPT !.children = segments]),
        segments |-> segments]
  ELSE LET sorted == sort(segments)
           mid == (Len(sorted) + 1) \div 2
           left_segments == SubSeq(sorted, 1, mid)
           right_segments == SubSeq(sorted, mid + 1, Len(sorted))
       IN [node |-> update_bbox([RTreeNode(FALSE, None)
                                   EXCEPT !.children =
                                     << _build_tree_recursive_mid_up(left_segments).node,
                                        _build_tree_recursive_mid_up(right_segments).node >>]),
           segments |-> sorted]

(* ---------------- aaf-lab-var2.py: _build_tree_recursive --------------- *)
\* returns the node built and the argument list as the call leaves it:
\* segments.sort sorts the caller's list in place, the two halves are
\* slices (fresh lists)
RECURSIVE _build_tree_recursive(_)
_build_tree_recursive(segments) ==
  IF Len(segments) = 1
  THEN [node |-> update_bbox([RTreeNode(TRUE, segments[1])
                                EXCEPT !.children = segments]),
        segments |-> segments]
  ELSE LET sorted == sort(segments)
           mid == Len(sorted) \div 2
           left_segments == SubSeq(sorted, 1, mid)
           right_segments == SubSeq(sorted, mid + 1, Len(sorted))
       IN [node |-> update_bbox([RTreeNode(FALSE, None)
                                   EXCEPT !.children =
                                     << _build_tree_recursive(left_segments).node,
                                        _build_tree_recursive(right_segments).node >>]),
           segments |-> sorted]

(* ---------------------- aaf-lab.py: RTreeNode -------------------------- *)
LabNode(segment) == [segment |-> segment, left |-> None, right |-> None]

\* the node after _insert_node(node, segment)
RECURSIVE _insert_node(_, _)
_insert_node(node, segment) ==
  IF segment[1] < node.segment[1]
  THEN IF IsNone(node.left)
       THEN [node EXCEPT !.left = LabNode(segment)]
       ELSE [node EXCEPT !.left = _insert_node(node.left, segment)]
  ELSE IF IsNone(node.right)
       THEN [node EXCEPT !.right = LabNode(segment)]
       ELSE [node EXCEPT !.right = _insert_node(node.right, segment)]

(* ------------------------------ RTree ---------------------------------- *)
\* RTree(): no root, empty store
RTree == [root |-> None, segments |-> <<>>]

\* insert that assigns the store instead of appending to it
RTreeInsert_assign(v, tree, segment) ==
  IF v = "var2"
  THEN LET built == _build_tree_recursive(<<segment>>)
       IN [root |-> built.node, segments |-> built.segments]
  ELSE [root |-> IF IsNone(tree.root) THEN LabNode(segment)
                 ELSE _insert_node(tree.root, segment),
        segments |-> <<segment>>]

\* insert that builds the tree only while there is none
RTreeInsert_build_once(v, tree, segment) ==
  IF v = "var2"
  THEN IF IsNone(tree.root)
       THEN LET built == _build_tree_recursive(Append(tree.segments, segment))
            IN [root |-> built.node, segments |-> built.segments]
       ELSE [root |-> tree.root, segments |-> Append(tree.segments, segment)]
  ELSE [root |-> IF IsNone(tree.root) THEN LabNode(segment)
                 ELSE _insert_node(tree.root, segment),
        segments |-> Append(tree.segments, segment)]

\* insert that builds the tree from the new segment alone
RTreeInsert_leaf_only(v, tree, segment) ==
  IF v = "var2"
  THEN [root |-> _build_tree_recursive(<<segment>>).node,
        segments |-> sort(Append(tree.segments, segment))]
  ELSE [root |-> IF IsNone(tree.root) THEN LabNode(segment)
                 ELSE _insert_node(tree.root, segment),
        segments |-> Append(tree.segments, segment)]

\* the RTree after tree.insert(segment), in the program file v
RTreeInsert(v, tree, segment) ==
  IF v = "var2"
  THEN LET built == _build_tree_recursive(Append(tree.segments, segment))
       IN [root |-> built.node, segments |-> built.segments]
  ELSE [root |-> IF IsNone(tree.root) THEN LabNode(segment)
                 ELSE _insert_node(tree.root, segment),
        segments |-> Append(tree.segments, segment)]

\* the scan with "return False" inside the loop: only the first stored
\* segment is looked at
ScanContains_first_only(segments, L, H) ==
  IF segments = <<>> THEN FALSE
  ELSE Head(segments)[1] <= L /\ H <= Head(segments)[2]

\* tree.contains(segment): linear scan of the store
RECURSIVE ScanContains(_, _, _)
ScanContains(segments, L, H) ==
  IF segments = <<>> THEN FALSE
  ELSE IF Head(segments)[1] <= L /\ H <= Head(segments)[2] THEN TRUE
  ELSE ScanContains(Tail(segments), L, H)

RTreeContains(tree, segment) == ScanContains(tree.segments, segment[1], segment[2])

\* the INTERSECTS test with <= for <: segments that only touch the query
\* at one endpoint are dropped
Matches_open_overlap(query_type, params, seg) ==
  IF query_type = "CONTAINS" THEN seg[1] <= params[1] /\ params[2] <= seg[2]
  ELSE IF query_type = "INTERSECTS" THEN ~(seg[2] <= params[1] \/ params[2] <= seg[1])
  ELSE seg[2] <= params

\* the CONTAINS test the other way round: the stored segment nested in
\* the query
Matches_mirrored(query_type, params, seg) ==
  IF query_type = "CONTAINS" THEN params[1] <= seg[1] /\ seg[2] <= params[2]
  ELSE IF query_type = "INTERSECTS" THEN ~(seg[2] < params[1] \/ params[2] < seg[1])
  ELSE seg[2] <= params

\* the condition of the list comprehension search runs for query_type
Matches(query_type, params, seg) ==
  IF query_type = "CONTAINS" THEN seg[1] <= params[1] /\ params[2] <= seg[2]
  ELSE IF query_type = "INTERSECTS" THEN ~(seg[2] < params[1] \/ params[2] < seg[1])
  ELSE seg[2] <= params

\* [seg for seg in segments if <condition>]: store order is kept
RECURSIVE Comprehension(_, _, _)
Comprehension(segments, query_type, params) ==
  IF segments = <<>> THEN <<>>
  ELSE IF Matches(query_type, params, Head(segments))
       THEN <<Head(segments)>> \o Comprehension(Tail(segments), query_type, params)
       ELSE Comprehension(Tail(segments), query_type, params)

\* tree.search(query_type, params); query_type "None" is the unfiltered
\* call, which returns the store itself
RTreeSearch(tree, query_type, params) ==
  IF query_type = "None" THEN tree.segments
  ELSE IF query_type \in {"CONTAINS", "INTERSECTS", "LEFT_OF"}
  THEN Comprehension(tree.segments, query_type, params)
  ELSE <<>>

(* ---------------------------- print_tree ------------------------------ *)
\* one printed line: indent spaces, then position, sep and the box
Line(indent, position, sep, bbox) ==
  [indent |-> indent, position |-> position, sep |-> sep, bbox |-> bbox]

\* print_tree that descends into children[1] (the right child) first
RECURSIVE PrintNode_right_first(_, _, _)
PrintNode_right_first(node, level, position) ==
  IF node.is_leaf
  THEN << Line(2 * level, position, ": ", node.bbox) >>
  ELSE << Line(2 * level, position, ":  ", node.bbox) >>
       \o PrintNode_right_first(node.children[2], level + 1, "Right Child")
       \o PrintNode_right_first(node.children[1], level + 1, "Left Child")

\* aaf-lab-var2.py print_tree(node, level, position) on a node that is
\* not None: the lines it prints, in order
RECURSIVE PrintNode(_, _, _)
PrintNode(node, level, position) ==
  IF node.is_leaf
  THEN << Line(2 * level, position, ": ", node.bbox) >>
  ELSE << Line(2 * level, position, ":  ", node.bbox) >>
       \o PrintNode(node.children[1], level + 1, "Left Child")
       \o PrintNode(node.children[2], level + 1, "Right Child")

\* aaf-lab.py print_tree(node, level) on a node that is not None
RECURSIVE LabPrintNode(_, _)
LabPrintNode(node, level) ==
  (IF ~IsNone(node.right) THEN LabPrintNode(node.right, level + 1) ELSE <<>>)
  \o << Line(4 * level, "", "", node.segment) >>
  \o (IF ~IsNone(node.left) THEN LabPrintNode(node.left, level + 1) ELSE <<>>)

\* tree.print_tree() as the Parser calls it: the lines printed and the
\* exception that leaves the call ("None" when it returns)
RTreePrint(v, tree) ==
  IF v = "var2"
  THEN IF IsNone(tree.root)
       THEN [lines |-> << Line(0, "Tree is empty", "", <<>>) >>, raised |-> "None"]
       ELSE [lines |-> PrintNode(tree.root, 0, "Root"), raised |-> "None"]
  ELSE IF IsNone(tree.root)
       THEN [lines |-> <<>>, raised |-> "AttributeError"]
       ELSE [lines |-> LabPrintNode(tree.root, 0), raised |-> "None"]

(* ------------------------------ Parser --------------------------------- *)
\* a result string: the text with its formatted fields kept apart
Str(msg, name, nums, list) ==
  [msg |-> msg, name |-> name, nums |-> nums, list |-> list]

\* what a handler leaves behind: the registry, the string returned, the
\* lines printed and the exception that escapes ("None" when it returns)
Out(t, res, lines, exc) ==
  [trees |-> t, result |-> res, printed |-> lines, raised |-> exc]

Returns(t, res) == Out(t, res, <<>>, "None")

NoResult == Str("", "", <<>>, <<>>)

\* create that assigns the fresh RTree before it looks the name up
create_overwrite(v, t, tokens) ==
  IF Len(tokens) < 2
  THEN Returns(t, Str("Invalid CREATE command: missing set name", "", <<>>, <<>>))
  ELSE LET set_name == tokens[2] IN
       IF set_name \in DOMAIN t
       THEN Returns([t EXCEPT ![set_name] = RTree],
                    Str("Set {set_name} already exists", set_name, <<>>, <<>>))
       ELSE Returns((set_name :> RTree) @@ t,
                    Str("Set {set_name} has been created", set_name, <<>>, <<>>))

\* create that assigns a new dict holding only the new set
create_reset_registry(v, t, tokens) ==
  IF Len(tokens) < 2
  THEN Returns(t, Str("Invalid CREATE command: missing set name", "", <<>>, <<>>))
  ELSE LET set_name == tokens[2] IN
       IF set_name \in DOMAIN t
       THEN Returns(t, Str("Set {set_name} already exists", set_name, <<>>, <<>>))
       ELSE Returns((set_name :> RTree),
                    Str("Set {set_name} has been created", set_name, <<>>, <<>>))

\* Parser.create
create(v, t, tokens) ==
  IF Len(tokens) < 2
  THEN Returns(t, Str("Invalid CREATE command: missing set name", "", <<>>, <<>>))
  ELSE LET set_name == tokens[2] IN
       IF set_name \in DOMAIN t
       THEN Returns(t, Str("Set {set_name} already exists", set_name, <<>>, <<>>))
       ELSE Returns((set_name :> RTree) @@ t,
                    Str("Set {set_name} has been created", set_name, <<>>, <<>>))

\* insert with the bound test the wrong way round (h > l rejected)
insert_reversed_test(v, t, tokens) ==
  IF Len(tokens) < 4
  THEN Returns(t, Str("Invalid INSERT command: missing parameters", "", <<>>, <<>>))
  ELSE LET set_name == tokens[2] IN
       IF set_name \notin DOMAIN t
       THEN Returns(t, Str("Set {set_name} does not exist", set_name, <<>>, <<>>))
       ELSE IF ~IsInt(tokens[4]) \/ Len(tokens) < 6 \/ ~IsInt(tokens[6])
       THEN Returns(t, Str("Invalid INSERT command: invalid segment format", "", <<>>, <<>>))
       ELSE LET l == int(tokens[4])
                h == int(tokens[6])
            IN IF h > l
               THEN Returns(t, Str("Invalid INSERT command: lower bound greater than upper bound",
                                   "", <<>>, <<>>))
               ELSE Returns([t EXCEPT ![set_name] = RTreeInsert(v, @, <<l, h>>)],
                            Str("Range [{l}, {h}] has been added to {set_name}",
                                set_name, <<l, h>>, <<>>))

\* insert without the test of the bounds
insert_no_test(v, t, tokens) ==
  IF Len(tokens) < 4
  THEN Returns(t, Str("Invalid INSERT command: missing parameters", "", <<>>, <<>>))
  ELSE LET set_name == tokens[2] IN
       IF set_name \notin DOMAIN t
       THEN Returns(t, Str("Set {set_name} does not exist", set_name, <<>>, <<>>))
       ELSE IF ~IsInt(tokens[4]) \/ Len(tokens) < 6 \/ ~IsInt(tokens[6])
       THEN Returns(t, Str("Invalid INSERT command: invalid segment format", "", <<>>, <<>>))
       ELSE LET l == int(tokens[4])
                h == int(tokens[6])
            IN IF FALSE
               THEN Returns(t, Str("Invalid INSERT command: lower bound greater than upper bound",
                                   "", <<>>, <<>>))
               ELSE Returns([t EXCEPT ![set_name] = RTreeInsert(v, @, <<l, h>>)],
                            Str("Range [{l}, {h}] has been added to {set_name}",
                                set_name, <<l, h>>, <<>>))

\* insert when RTree.segments is one list shared by all the RTree objects
\* (a class attribute): every set receives the segment
insert_shared_store(v, t, tokens) ==
  IF Len(tokens) < 4
  THEN Returns(t, Str("Invalid INSERT command: missing parameters", "", <<>>, <<>>))
  ELSE LET set_name == tokens[2] IN
       IF set_name \notin DOMAIN t
       THEN Returns(t, Str("Set {set_name} does not exist", set_name, <<>>, <<>>))
       ELSE IF ~IsInt(tokens[4]) \/ Len(tokens) < 6 \/ ~IsInt(tokens[6])
       THEN Returns(t, Str("Invalid INSERT command: invalid segment format", "", <<>>, <<>>))
       ELSE LET l == int(tokens[4])
                h == int(tokens[6])
            IN IF l > h
               THEN Returns(t, Str("Invalid INSERT command: lower bound greater than upper bound",
                                   "", <<>>, <<>>))
               ELSE Returns([n \in DOMAIN t |-> RTreeInsert(v, t[n], <<l, h>>)],
                            Str("Range [{l}, {h}] has been added to {set_name}",
                                set_name, <<l, h>>, <<>>))

\* Parser.insert
insert(v, t, tokens) ==
  IF Len(tokens) < 4
  THEN Returns(t, Str("Invalid INSERT command: missing parameters", "", <<>>, <<>>))
  ELSE LET set_name == tokens[2] IN
       IF set_name \notin DOMAIN t
       THEN Returns(t, Str("Set {set_name} does not exist", set_name, <<>>, <<>>))
       ELSE IF ~IsInt(tokens[4]) \/ Len(tokens) < 6 \/ ~IsInt(tokens[6])
       THEN Returns(t, Str("Invalid INSERT command: invalid segment format", "", <<>>, <<>>))
       ELSE LET l == int(tokens[4])
                h == int(tokens[6])
            IN IF l > h
               THEN Returns(t, Str("Invalid INSERT command: lower bound greater than upper bound",
                                   "", <<>>, <<>>))
               ELSE Returns([t EXCEPT ![set_name] = RTreeInsert(v, @, <<l, h>>)],
                            Str("Range [{l}, {h}] has been added to {set_name}",
                                set_name, <<l, h>>, <<>>))

\* Parser.print_tree
print_tree(v, t, tokens) ==
  IF Len(tokens) < 2
  THEN Returns(t, Str("Invalid PRINT_TREE command: missing set name", "", <<>>, <<>>))
  ELSE LET set_name == tokens[2] IN
       IF set_name \notin DOMAIN t
       THEN Returns(t, Str("Set {set_name} does not exist", set_name, <<>>, <<>>))
       ELSE LET p == RTreePrint(v, t[set_name]) IN
            IF p.raised # "None"
            THEN Out(t, NoResult, p.lines, p.raised)
            ELSE Out(t, Str("Tree for {set_name} printed above", set_name, <<>>, <<>>),
                     p.lines, "None")

\* contains that looks the set up with a default: an unknown name gets a
\* fresh RTree and the scan of its empty store answers False
contains_autocreate(v, t, tokens) ==
  IF Len(tokens) < 4
  THEN Returns(t, Str("Invalid CONTAINS command: missing parameters", "", <<>>, <<>>))
  ELSE LET set_name == tokens[2] IN
       IF set_name \notin DOMAIN t
       THEN Returns((set_name :> RTree) @@ t, Str("False", "", <<>>, <<>>))
       ELSE IF ~IsInt(tokens[4]) \/ Len(tokens) < 6 \/ ~IsInt(tokens[6])
       THEN Returns(t, Str("Invalid CONTAINS command: invalid segment format", "", <<>>, <<>>))
       ELSE LET l == int(tokens[4])
                h == int(tokens[6])
            IN Returns(t, Str(IF RTreeContains(t[set_name], <<l, h>>) THEN "True" ELSE "False",
                              "", <<>>, <<>>))

\* Parser.contains
contains(v, t, tokens) ==
  IF Len(tokens) < 4
  THEN Returns(t, Str("Invalid CONTAINS command: missing parameters", "", <<>>, <<>>))
  ELSE LET set_name == tokens[2] IN
       IF set_name \notin DOMAIN t
       THEN Returns(t, Str("Set {set_name} does not exist", set_name, <<>>, <<>>))
       ELSE IF ~IsInt(tokens[4]) \/ Len(tokens) < 6 \/ ~IsInt(tokens[6])
       THEN Returns(t, Str("Invalid CONTAINS command: invalid segment format", "", <<>>, <<>>))
       ELSE LET l == int(tokens[4])
                h == int(tokens[6])
            IN Returns(t, Str(IF RTreeContains(t[set_name], <<l, h>>) THEN "True" ELSE "False",
                              "", <<>>, <<>>))

\* search that sorts the list the unfiltered call returned before it
\* formats it; that list is the store itself
search_sorted_output(v, t, tokens) ==
  IF Len(tokens) < 2
  THEN Returns(t, Str("Invalid SEARCH command: missing set name", "", <<>>, <<>>))
  ELSE LET set_name == tokens[2] IN
       IF set_name \notin DOMAIN t
       THEN Returns(t, Str("Set {set_name} does not exist", set_name, <<>>, <<>>))
       ELSE IF Len(tokens) = 2
       THEN Returns([t EXCEPT ![set_name].segments = sort(@)],
                    Str("Search results: {results}", "", <<>>,
                        sort(RTreeSearch(t[set_name], "None", None))))
       ELSE IF Len(tokens) < 4 \/ upper(tokens[3]) # "WHERE"
       THEN Returns(t, Str("Invalid SEARCH command: invalid WHERE clause", "", <<>>, <<>>))
       ELSE LET query_type == upper(tokens[4]) IN
            IF query_type \in {"CONTAINS", "INTERSECTS"}
            THEN IF Len(tokens) < 6 \/ ~IsInt(tokens[6])
                    \/ Len(tokens) < 8 \/ ~IsInt(tokens[8])
                 THEN Returns(t, Str("Invalid SEARCH command: invalid {query_type} parameters",
                                     query_type, <<>>, <<>>))
                 ELSE Returns(t, Str("Search results: {results}", "", <<>>,
                                     RTreeSearch(t[set_name], query_type,
                                                 <<int(tokens[6]), int(tokens[8])>>)))
            ELSE IF query_type = "LEFT_OF"
            THEN IF Len(tokens) < 5 \/ ~IsInt(tokens[5])
                 THEN Returns(t, Str("Invalid SEARCH command: invalid {query_type} parameters",
                                     query_type, <<>>, <<>>))
                 ELSE Returns(t, Str("Search results: {results}", "", <<>>,
                                     RTreeSearch(t[set_name], query_type, int(tokens[5]))))
            ELSE Returns(t, Str("Invalid SEARCH command: unknown search type", "", <<>>, <<>>))

\* Parser.search
search(v, t, tokens) ==
  IF Len(tokens) < 2
  THEN Returns(t, Str("Invalid SEARCH command: missing set name", "", <<>>, <<>>))
  ELSE LET set_name == tokens[2] IN
       IF set_name \notin DOMAIN t
       THEN Returns(t, Str("Set {set_name} does not exist", set_name, <<>>, <<>>))
       ELSE IF Len(tokens) = 2
       THEN Returns(t, Str("Search results: {results}", "", <<>>,
                           RTreeSearch(t[set_name], "None", None)))
       ELSE IF Len(tokens) < 4 \/ upper(tokens[3]) # "WHERE"
       THEN Returns(t, Str("Invalid SEARCH command: invalid WHERE clause", "", <<>>, <<>>))
       ELSE LET query_type == upper(tokens[4]) IN
            IF query_type \in {"CONTAINS", "INTERSECTS"}
            THEN IF Len(tokens) < 6 \/ ~IsInt(tokens[6])
                    \/ Len(tokens) < 8 \/ ~IsInt(tokens[8])
                 THEN Returns(t, Str("Invalid SEARCH command: invalid {query_type} parameters",
                                     query_type, <<>>, <<>>))
                 ELSE Returns(t, Str("Search results: {results}", "", <<>>,
                                     RTreeSearch(t[set_name], query_type,
                                                 <<int(tokens[6]), int(tokens[8])>>)))
            ELSE IF query_type = "LEFT_OF"
            THEN IF Len(tokens) < 5 \/ ~IsInt(tokens[5])
                 THEN Returns(t, Str("Invalid SEARCH command: invalid {query_type} parameters",
                                     query_type, <<>>, <<>>))
                 ELSE Returns(t, Str("Search results: {results}", "", <<>>,
                                     RTreeSearch(t[set_name], query_type, int(tokens[5]))))
            ELSE Returns(t, Str("Invalid SEARCH command: unknown search type", "", <<>>, <<>>))

\* Parser.parse on the token list of one command line
parse(v, t, tokens) ==
  IF tokens = <<>>
  THEN Returns(t, Str("Invalid command", "", <<>>, <<>>))
  ELSE LET command_type == upper(tokens[1]) IN
       IF command_type \in COMMANDS
       THEN CASE command_type = "CREATE"     -> create(v, t, tokens)
              [] command_type = "INSERT"     -> insert(v, t, tokens)
              [] command_type = "PRINT_TREE" -> print_tree(v, t, tokens)
              [] command_type = "CONTAINS"   -> contains(v, t, tokens)
              [] command_type = "SEARCH"     -> search(v, t, tokens)
       ELSE Returns(t, Str("Unknown command", "", <<>>, <<>>))

(* --------------------------- command lines ----------------------------- *)
\* set names the commands use
Names == {"a", "b"}

\* the numerals of 0..MaxVal, as the lexer yields them
Nums == {NumStr[i + 1] : i \in 0..MaxVal}

\* "[ l , h ]" as tokens
Bracket(l, h) == <<"[", l, ",", h, "]">>

CreateInputs ==
  {<<"CREATE", n>> : n \in Names} \cup {<<"CREATE">>, <<"create", "a">>}

InsertInputs ==
  {<<"INSERT", n>> \o Bracket(l, h) : n \in Names, l \in Nums, h \in Nums}
  \cup {<<"INSERT", "a">>, <<"INSERT", "a", "[", "0">>,
        <<"INSERT", "a">> \o Bracket("x", "0")}

PrintInputs == {<<"PRINT_TREE", n>> : n \in Names} \cup {<<"PRINT_TREE">>}

ContainsInputs ==
  {<<"CONTAINS", n>> \o Bracket(l, h) : n \in Names, l \in Nums, h \in Nums}
  \cup {<<"CONTAINS", "a">>, <<"CONTAINS", "a", "[", "0">>,
        <<"CONTAINS", "a">> \o Bracket("0", "x")}

SearchInputs ==
  {<<"SEARCH", n>> : n \in Names}
  \cup {<<"SEARCH", n, "WHERE", q>> \o Bracket(l, h) :
          n \in Names, q \in {"CONTAINS", "INTERSECTS"}, l \in Nums, h \in Nums}
  \cup {<<"SEARCH", n, "WHERE", "LEFT_OF", x>> : n \in Names, x \in Nums}
  \cup {<<"SEARCH">>, <<"SEARCH", "a", "WHERE">>, <<"SEARCH", "a", "where", "LEFT_OF", "0">>,
        <<"SEARCH", "a", "WHERE", "NEAR", "0">>, <<"SEARCH", "a", "WHERE", "LEFT_OF">>,
        <<"SEARCH", "a", "WHERE", "CONTAINS", "[", "x", ",", "0", "]">>}

OtherInputs == {<<>>, <<"DROP", "a">>}

(* ------------------------------- state --------------------------------- *)
\* variant : the program file that runs, "var2" or "lab"
\* trees   : Parser.trees, set name -> RTree
\* hist    : per set, the segments its successful INSERTs added, in the
\*           order the commands were issued
\* pc      : main's position in its loop: "parse" before parser.parse(cmd),
\*           "report" between its return and the two prints of the result
\* cmd     : the tokens of the command of this iteration, result : the
\*           string parse returned, printed : the lines it printed
\* raised  : the exception that escaped Parser.parse ("None": none did)
Empty == [n \in {} |-> <<>>]

Init ==
  /\ variant \in {"var2", "lab"}
  /\ trees = Empty
  /\ hist = Empty
  /\ pc = "parse"
  /\ cmd = <<>>
  /\ result = NoResult
  /\ printed = <<>>
  /\ raised = "None"

RECURSIVE SumLen(_, _)
SumLen(f, S) ==
  IF S = {} THEN 0
  ELSE LET n == CHOOSE m \in S : TRUE IN Len(f[n]) + SumLen(f, S \ {n})

TotalInserts == SumLen(hist, DOMAIN hist)

Added(res) == res.msg = "Range [{l}, {h}] has been added to {set_name}"

\* main's loop body, first half: result = parser.parse(cmd); an
\* exception that escapes parse ends the process
\* (the actions below are parse's branches on the command keyword)
Run(tokens) ==
  /\ pc = "parse"
  /\ raised = "None"
  /\ LET out == parse(variant, trees, tokens) IN
       /\ Added(out.result) => TotalInserts < MaxInserts
       /\ trees' = out.trees
       /\ result' = out.result
       /\ printed' = out.printed
       /\ raised' = out.raised
       /\ hist' = IF Added(out.result)
                  THEN [hist EXCEPT ![out.result.name] = Append(@, out.result.nums)]
                  ELSE [n \in DOMAIN out.trees |-> IF n \in DOMAIN hist THEN hist[n] ELSE <<>>]
  /\ cmd' = tokens
  /\ pc' = "report"
  /\ UNCHANGED variant

Create ==
  \E tokens \in CreateInputs :
    /\ upper(tokens[1]) = "CREATE"
    /\ Run(tokens)

Insert ==
  \E tokens \in InsertInputs :
    /\ upper(tokens[1]) = "INSERT"
    /\ Run(tokens)

PrintTree ==
  \E tokens \in PrintInputs :
    /\ upper(tokens[1]) = "PRINT_TREE"
    /\ Run(tokens)

Contains ==
  \E tokens \in ContainsInputs :
    /\ upper(tokens[1]) = "CONTAINS"
    /\ Run(tokens)

Search ==
  \E tokens \in SearchInputs :
    /\ upper(tokens[1]) = "SEARCH"
    /\ Run(tokens)

Other ==
  \E tokens \in OtherInputs :
    /\ IF tokens = <<>> THEN TRUE ELSE upper(tokens[1]) \notin COMMANDS
    /\ Run(tokens)

\* main's loop body, second half: the command and its result are printed
\* and the loop moves on; cmd and result are dead until the next
\* iteration assigns them, so they go back to their initial values
Report ==
  /\ pc = "report"
  /\ raised = "None"
  /\ pc' = "parse"
  /\ cmd' = <<>>
  /\ result' = NoResult
  /\ printed' = <<>>
  /\ UNCHANGED <<variant, trees, hist, raised>>

Next == Create \/ Insert \/ PrintTree \/ Contains \/ Search \/ Other \/ Report

Spec == Init /\ [][Next]_vars

\* aaf-lab-var2.py alone
InitVar2 == Init /\ variant = "var2"

SpecVar2 == InitVar2 /\ [][Next]_vars

(* ------------------------ vocabulary of the claims --------------------- *)
Range(s) == {s[i] : i \in 1..Len(s)}

\* tokens is "<keyword> <existing set> [ l , h ]" with numerals l and h
SegCommand(tokens, keyword, t) ==
  /\ Len(tokens) = 7
  /\ upper(tokens[1]) = keyword
  /\ tokens[2] \in DOMAIN t
  /\ IsInt(tokens[4]) /\ IsInt(tokens[6])

\* tokens is "SEARCH <existing set> WHERE <filter> [ L , H ]"
SearchSegCommand(tokens, filter, t) ==
  /\ Len(tokens) = 9
  /\ upper(tokens[1]) = "SEARCH"
  /\ tokens[2] \in DOMAIN t
  /\ upper(tokens[3]) = "WHERE" /\ upper(tokens[4]) = filter
  /\ IsInt(tokens[6]) /\ IsInt(tokens[8])

\* tokens is "SEARCH <existing set> WHERE LEFT_OF x"
LeftOfCommand(tokens, t) ==
  /\ Len(tokens) = 5
  /\ upper(tokens[1]) = "SEARCH"
  /\ tokens[2] \in DOMAIN t
  /\ upper(tokens[3]) = "WHERE" /\ upper(tokens[4]) = "LEFT_OF"
  /\ IsInt(tokens[5])

\* the leaves of a bounding-box tree, left to right
RECURSIVE Leaves(_)
Leaves(node) ==
  IF node.is_leaf THEN <<node>>
  ELSE Leaves(node.children[1]) \o Leaves(node.children[2])

(* ------------------------------- C1 ------------------------------------ *)
\* C1: in aaf-lab-var2.py the Segment Store of every set, and so the
\* result of an unfiltered search, is the sequence of the segments
\* inserted into it, in insertion order, duplicates included.
C1_StoreIsInsertionOrder ==
  variant = "var2" =>
    \A n \in DOMAIN trees :
      /\ trees[n].segments = hist[n]
      /\ RTreeSearch(trees[n], "None", None) = hist[n]

(* ------------------------------- C2 ------------------------------------ *)
\* every internal node below node has two children and the box
\* [min of the children's lower bounds, max of their upper bounds];
\* every leaf's box is the segment it wraps
RECURSIVE BoxesConsistent(_)
BoxesConsistent(node) ==
  IF node.is_leaf
  THEN /\ Len(node.children) = 1
       /\ node.bbox = node.segment
       /\ node.bbox = node.children[1]
  ELSE /\ Len(node.children) = 2
       /\ node.bbox[1] = Min(node.children[1].bbox[1], node.children[2].bbox[1])
       /\ node.bbox[2] = Max(node.children[1].bbox[2], node.children[2].bbox[2])
       /\ BoxesConsistent(node.children[1])
       /\ BoxesConsistent(node.children[2])

\* C2: in aaf-lab-var2.py, in every reachable state, every internal node
\* of every set's tree has exactly two children and bbox = [min of the
\* children's lower bounds, max of their upper bounds], and every leaf's
\* bbox is the one segment it wraps.
C2_BoxInvariant ==
  variant = "var2" =>
    \A n \in DOMAIN trees :
      ~IsNone(trees[n].root) => BoxesConsistent(trees[n].root)

\* a three-segment tree whose root box is wider than each child's box
C2_Witness ==
  \E n \in DOMAIN trees :
    /\ variant = "var2"
    /\ Len(trees[n].segments) = 3
    /\ ~trees[n].root.is_leaf
    /\ ~trees[n].root.children[2].is_leaf
    /\ trees[n].root.bbox # trees[n].root.children[1].bbox
    /\ trees[n].root.bbox # trees[n].root.children[2].bbox

(* ------------------------------- C3 ------------------------------------ *)
\* C3: a CONTAINS command on an existing set returns "True" exactly when
\* some segment [l, h] of the store it ran on has l <= L and H <= h, and
\* "False" otherwise (so "False" on an empty store).
C3_ContainsIffNested ==
  [][ (pc' = "report" /\ SegCommand(cmd', "CONTAINS", trees)) =>
        LET store == trees[cmd'[2]].segments
            L == int(cmd'[4])
            H == int(cmd'[6])
            nested == \E i \in 1..Len(store) : store[i][1] <= L /\ H <= store[i][2]
        IN /\ result'.msg = (IF nested THEN "True" ELSE "False")
           /\ store = <<>> => result'.msg = "False" ]_vars

\* CONTAINS answered "True" because of a stored segment that is not the
\* first of the store and is strictly wider than the query
C3_Witness ==
  /\ pc = "report"
  /\ SegCommand(cmd, "CONTAINS", trees)
  /\ result.msg = "True"
  /\ LET store == trees[cmd[2]].segments IN
       /\ Len(store) >= 2
       /\ ~(store[1][1] <= int(cmd[4]) /\ int(cmd[6]) <= store[1][2])
       /\ <<int(cmd[4]), int(cmd[6])>> \notin Range(store)

(* ------------------------------- C4 ------------------------------------ *)
\* C4: every segment a successful INSERT added to a set is, in that state
\* and in every later one, contained by the set (Contains(s) is True)
\* and among the results of its unfiltered search.
C4_Monotonic ==
  \A n \in DOMAIN hist :
    \A i \in 1..Len(hist[n]) :
      /\ RTreeContains(trees[n], hist[n][i])
      /\ hist[n][i] \in Range(RTreeSearch(trees[n], "None", None))
      /\ (pc = "report" /\ SegCommand(cmd, "CONTAINS", trees) /\ cmd[2] = n
          /\ <<int(cmd[4]), int(cmd[6])>> = hist[n][i]) => result.msg = "True"

\* a CONTAINS of the first segment inserted, asked after two later
\* inserts into the same set
C4_Witness ==
  /\ pc = "report"
  /\ SegCommand(cmd, "CONTAINS", trees)
  /\ Len(hist[cmd[2]]) = 3
  /\ <<int(cmd[4]), int(cmd[6])>> = hist[cmd[2]][1]
  /\ hist[cmd[2]][2] # hist[cmd[2]][1]
  /\ hist[cmd[2]][3] # hist[cmd[2]][1]
  /\ result.msg = "True"

(* ------------------------------- C5 ------------------------------------ *)
\* C5: SEARCH ... WHERE LEFT_OF X returns the segments [l, h] inserted
\* into the set with h <= X, each as often as it was inserted, in the
\* order they were inserted.
C5_LeftOfInsertionOrder ==
  (pc = "report" /\ LeftOfCommand(cmd, trees)) =>
    result.list = SelectSeq(hist[cmd[2]], LAMBDA seg : seg[2] <= int(cmd[5]))

(* ------------------------------- C6 ------------------------------------ *)
\* C6: SEARCH ... WHERE INTERSECTS [L, H] returns the segments [l, h] of
\* the store it ran on with NOT (h < L OR H < l), in store order; a
\* segment that touches the query at one endpoint is among them.
C6_IntersectsExact ==
  [][ (pc' = "report" /\ SearchSegCommand(cmd', "INTERSECTS", trees)) =>
        LET L == int(cmd'[6])
            H == int(cmd'[8])
        IN result'.list =
             SelectSeq(trees[cmd'[2]].segments,
                       LAMBDA seg : ~(seg[2] < L \/ H < seg[1])) ]_vars

\* two of three stored segments returned, one of them touching the query
\* only at the query's lower end
C6_Witness ==
  /\ pc = "report"
  /\ SearchSegCommand(cmd, "INTERSECTS", trees)
  /\ Len(trees[cmd[2]].segments) = 3
  /\ Len(result.list) = 2
  /\ \E i \in 1..2 : result.list[i][2] = int(cmd[6]) /\ result.list[i][1] < int(cmd[6])

(* ------------------------------- C7 ------------------------------------ *)
\* C7: SEARCH ... WHERE CONTAINS [L, H] returns the segments [l, h] of
\* the store it ran on with l <= L and H <= h, in store order, and the
\* result is non-empty exactly when Contains([L, H]) is True.
C7_SearchContainsExact ==
  [][ (pc' = "report" /\ SearchSegCommand(cmd', "CONTAINS", trees)) =>
        LET L == int(cmd'[6])
            H == int(cmd'[8])
        IN /\ result'.list =
                SelectSeq(trees[cmd'[2]].segments,
                          LAMBDA seg : seg[1] <= L /\ H <= seg[2])
           /\ (result'.list # <<>>) <=> RTreeContains(trees[cmd'[2]], <<L, H>>) ]_vars

\* two of three stored segments returned for a query narrower than one
\* of them
C7_Witness ==
  /\ pc = "report"
  /\ SearchSegCommand(cmd, "CONTAINS", trees)
  /\ Len(trees[cmd[2]].segments) = 3
  /\ Len(result.list) = 2
  /\ \E i \in 1..2 : result.list[i] # <<int(cmd[6]), int(cmd[8])>>

(* ------------------------------- C8 ------------------------------------ *)
\* a CONTAINS or SEARCH command line, well-formed or not
ReadCommand(tokens) ==
  tokens # <<>> /\ upper(tokens[1]) \in {"CONTAINS", "SEARCH"}

\* C8: a CONTAINS or SEARCH command leaves the registry and every set's
\* store and tree as they were, and the same command issued again right
\* after it returns the identical result and again changes nothing.
C8_ReadOnly ==
  /\ [][ (pc' = "report" /\ ReadCommand(cmd')) => trees' = trees ]_vars
  /\ []( (pc = "report" /\ ReadCommand(cmd)) =>
           /\ parse(variant, trees, cmd).result = result
           /\ parse(variant, trees, cmd).trees = trees )

\* an unfiltered SEARCH that returned three segments which are not in
\* ascending order of lower bound
C8_Witness ==
  /\ pc = "report"
  /\ Len(cmd) = 2 /\ upper(cmd[1]) = "SEARCH" /\ cmd[2] \in DOMAIN trees
  /\ Len(result.list) = 3
  /\ result.list = trees[cmd[2]].segments
  /\ result.list # sort(result.list)

(* ------------------------------- C9 ------------------------------------ *)
\* C9: INSERT on an existing set with l > h returns the "lower bound
\* greater than upper bound" error and changes neither the registry nor
\* any store or tree.
C9_RejectsInverted ==
  [][ (pc' = "report" /\ SegCommand(cmd', "INSERT", trees)
       /\ int(cmd'[4]) > int(cmd'[6])) =>
        /\ result'.msg = "Invalid INSERT command: lower bound greater than upper bound"
        /\ trees' = trees ]_vars

\* the rejected INSERT named a set that already holds segments
C9_Witness ==
  /\ pc = "report"
  /\ SegCommand(cmd, "INSERT", trees)
  /\ int(cmd[4]) > int(cmd[6])
  /\ Len(trees[cmd[2]].segments) >= 2
  /\ result.msg = "Invalid INSERT command: lower bound greater than upper bound"

(* ------------------------------- C10 ----------------------------------- *)
\* C10: CREATE on a name not in the registry adds an index with an empty
\* store and no tree, changes no other entry and returns "Set <name> has
\* been created"; CREATE on a name in the registry returns "Set <name>
\* already exists" and leaves the registry, stores and trees unchanged.
C10_Create ==
  [][ (pc' = "report" /\ Len(cmd') >= 2 /\ upper(cmd'[1]) = "CREATE") =>
        LET name == cmd'[2] IN
        IF name \in DOMAIN trees
        THEN /\ result'.msg = "Set {set_name} already exists"
             /\ result'.name = name
             /\ trees' = trees
        ELSE /\ result'.msg = "Set {set_name} has been created"
             /\ result'.name = name
             /\ DOMAIN trees' = DOMAIN trees \cup {name}
             /\ IsNone(trees'[name].root) /\ trees'[name].segments = <<>>
             /\ \A n \in DOMAIN trees : trees'[n] = trees[n] ]_vars

\* CREATE answered "already exists" for a set that holds two or more
\* segments
C10_Witness ==
  /\ pc = "report"
  /\ Len(cmd) >= 2 /\ upper(cmd[1]) = "CREATE"
  /\ result.msg = "Set {set_name} already exists"
  /\ Len(trees[cmd[2]].segments) >= 2
  /\ ~IsNone(trees[cmd[2]].root)

(* ------------------------------- C11 ----------------------------------- *)
\* tokens is a command line of the grammar for INSERT, CONTAINS, SEARCH
\* or PRINT_TREE
WellFormedOnSet(tokens) ==
  \/ /\ Len(tokens) = 7
     /\ upper(tokens[1]) \in {"INSERT", "CONTAINS"}
     /\ IsInt(tokens[4]) /\ IsInt(tokens[6])
  \/ /\ Len(tokens) = 2
     /\ upper(tokens[1]) \in {"SEARCH", "PRINT_TREE"}
  \/ /\ Len(tokens) = 9
     /\ upper(tokens[1]) = "SEARCH" /\ upper(tokens[3]) = "WHERE"
     /\ upper(tokens[4]) \in {"CONTAINS", "INTERSECTS"}
     /\ IsInt(tokens[6]) /\ IsInt(tokens[8])
  \/ /\ Len(tokens) = 5
     /\ upper(tokens[1]) = "SEARCH" /\ upper(tokens[3]) = "WHERE"
     /\ upper(tokens[4]) = "LEFT_OF" /\ IsInt(tokens[5])

\* C11: a well-formed INSERT, CONTAINS, SEARCH or PRINT_TREE command that
\* names a set not in the registry returns "Set <name> does not exist",
\* does not create the set and leaves the registry and every existing
\* set unchanged.
C11_UnknownSet ==
  [][ (pc' = "report" /\ WellFormedOnSet(cmd') /\ cmd'[2] \notin DOMAIN trees) =>
        /\ raised' = "None"
        /\ result'.msg = "Set {set_name} does not exist"
        /\ result'.name = cmd'[2]
        /\ printed' = <<>>
        /\ trees' = trees ]_vars

\* a CONTAINS on an unknown set was refused while another set with
\* segments exists
C11_Witness ==
  /\ pc = "report"
  /\ WellFormedOnSet(cmd)
  /\ upper(cmd[1]) = "CONTAINS"
  /\ cmd[2] \notin DOMAIN trees
  /\ result.msg = "Set {set_name} does not exist"
  /\ \E n \in DOMAIN trees : trees[n].segments # <<>>

(* ------------------------------- C12 ----------------------------------- *)
\* C12: no command is fatal, in either file: no exception escapes
\* Parser.parse, and every command that has run returned a result
\* string.
C12_NoFatal ==
  /\ raised = "None"
  /\ pc = "report" => result.msg # ""

(* ------------------------------- C13 ----------------------------------- *)
\* C13: in aaf-lab-var2.py, building again from a set's store (no insert
\* in between) yields the tree the set holds, node for node, and leaves
\* the store as the first build left it.
C13_RebuildIsSame ==
  variant = "var2" =>
    \A n \in DOMAIN trees :
      trees[n].segments # <<>> =>
        /\ _build_tree_recursive(trees[n].segments).node = trees[n].root
        /\ _build_tree_recursive(trees[n].segments).segments = trees[n].segments

\* a three-segment tree over two different segments with the same lower
\* bound, inserted in an order the build had to change
C13_Witness ==
  \E n \in DOMAIN trees :
    /\ variant = "var2"
    /\ Len(trees[n].segments) = 3
    /\ trees[n].segments # hist[n]
    /\ \E i, j \in 1..3 :
         /\ i < j
         /\ trees[n].segments[i][1] = trees[n].segments[j][1]
         /\ trees[n].segments[i] # trees[n].segments[j]

(* ------------------------------- C14 ----------------------------------- *)
\* s is t with zero or more elements added (as multisets)
SubBag(s, t) ==
  \A x \in Range(s) :
    Cardinality({i \in 1..Len(s) : s[i] = x}) <= Cardinality({i \in 1..Len(t) : t[i] = x})

\* C14: no command removes a name from the registry or lowers the number
\* of sets, and the index a name maps to is never replaced: its store
\* only gains segments.
C14_CreateOnly ==
  [][ /\ DOMAIN trees \subseteq DOMAIN trees'
      /\ Cardinality(DOMAIN trees') >= Cardinality(DOMAIN trees)
      /\ \A n \in DOMAIN trees : SubBag(trees[n].segments, trees'[n].segments) ]_vars

\* a second set was created while the first one holds segments
C14_Witness ==
  /\ pc = "report"
  /\ Len(cmd) = 2 /\ upper(cmd[1]) = "CREATE"
  /\ result.msg = "Set {set_name} has been created"
  /\ Cardinality(DOMAIN trees) = 2
  /\ \E n \in DOMAIN trees : n # cmd[2] /\ Len(trees[n].segments) >= 2

(* ------------------------------- C15 ----------------------------------- *)
\* the segments the leaves of a tree wrap, left to right
LeafSegments(node) == [i \in 1..Len(Leaves(node)) |-> Leaves(node)[i].segment]

RECURSIVE NodeCount(_)
NodeCount(node) ==
  IF node.is_leaf THEN 1
  ELSE 1 + NodeCount(node.children[1]) + NodeCount(node.children[2])

\* C15: in aaf-lab-var2.py a set with no insertions has no tree, and a
\* set with insertions has a tree whose leaves wrap exactly the segments
\* of its store, as multisets, one leaf per stored segment: leaf count =
\* store length, node count = 2 * length - 1.
C15_TreeIsWholeStore ==
  variant = "var2" =>
    \A n \in DOMAIN trees :
      IF trees[n].segments = <<>>
      THEN IsNone(trees[n].root)
      ELSE /\ ~IsNone(trees[n].root)
           /\ SubBag(LeafSegments(trees[n].root), trees[n].segments)
           /\ SubBag(trees[n].segments, LeafSegments(trees[n].root))
           /\ Len(Leaves(trees[n].root)) = Len(trees[n].segments)
           /\ NodeCount(trees[n].root) = 2 * Len(trees[n].segments) - 1

\* a tree of five nodes over a store that holds one segment twice, next
\* to a set that was created and never inserted into
C15_Witness ==
  /\ variant = "var2"
  /\ \E n \in DOMAIN trees :
       /\ Len(trees[n].segments) = 3
       /\ NodeCount(trees[n].root) = 5
       /\ Cardinality(Range(trees[n].segments)) = 2
  /\ \E n \in DOMAIN trees : trees[n].segments = <<>> /\ IsNone(trees[n].root)

(* ------------------------------- C16 ----------------------------------- *)
\* every internal node below node has the first floor(n/2) of its n
\* leaves in its left subtree and the others in its right subtree
RECURSIVE SplitAtHalf(_)
SplitAtHalf(node) ==
  IF node.is_leaf THEN TRUE
  ELSE LET n == Len(Leaves(node)) IN
       /\ n >= 2
       /\ Len(Leaves(node.children[1])) = n \div 2
       /\ Len(Leaves(node.children[2])) = n - (n \div 2)
       /\ SplitAtHalf(node.children[1])
       /\ SplitAtHalf(node.children[2])

\* C16: in aaf-lab-var2.py every internal node over n >= 2 segments has
\* floor(n/2) of them on the left and the rest on the right; the leaves,
\* left to right, have non-decreasing lower bounds, and the segments with
\* one and the same lower bound appear in the order they were inserted.
C16_BuildShape ==
  variant = "var2" =>
    \A n \in DOMAIN trees :
      ~IsNone(trees[n].root) =>
        LET leaves == LeafSegments(trees[n].root) IN
        /\ SplitAtHalf(trees[n].root)
        /\ \A i \in 1..(Len(leaves) - 1) : leaves[i][1] <= leaves[i + 1][1]
        /\ \A k \in 0..MaxVal :
             SelectSeq(leaves, LAMBDA seg : seg[1] = k)
               = SelectSeq(hist[n], LAMBDA seg : seg[1] = k)

\* three leaves, one on the left and two on the right, over an insertion
\* history that was not ascending and has two different segments with
\* the same lower bound
C16_Witness ==
  \E n \in DOMAIN trees :
    /\ variant = "var2"
    /\ Len(hist[n]) = 3
    /\ hist[n][1][1] > hist[n][2][1]
    /\ hist[n][2][1] = hist[n][3][1] /\ hist[n][2] # hist[n][3]
    /\ trees[n].root.children[1].is_leaf
    /\ ~trees[n].root.children[2].is_leaf

(* ------------------------------- C17 ----------------------------------- *)
\* C17: every segment of every set's store has l <= h, whatever INSERT
\* commands, well-formed or not, were issued.
C17_StoredSegmentsOrdered ==
  \A n \in DOMAIN trees :
    \A i \in 1..Len(trees[n].segments) :
      trees[n].segments[i][1] <= trees[n].segments[i][2]

\* an INSERT with l > h was refused on a set that holds three segments,
\* a point and a proper interval among them
C17_Witness ==
  /\ pc = "report"
  /\ SegCommand(cmd, "INSERT", trees)
  /\ ~Added(result)
  /\ LET store == trees[cmd[2]].segments IN
       /\ Len(store) = 3
       /\ \E i \in 1..3 : store[i][1] = store[i][2]
       /\ \E i \in 1..3 : store[i][1] < store[i][2]

(* ------------------------------- C18 ----------------------------------- *)
\* the nodes below node in depth-first pre-order, each with its depth
RECURSIVE PreOrder(_, _)
PreOrder(node, depth) ==
  IF node.is_leaf THEN << <<depth, node>> >>
  ELSE << <<depth, node>> >>
       \o PreOrder(node.children[1], depth + 1)
       \o PreOrder(node.children[2], depth + 1)

\* tokens is "PRINT_TREE <existing set that has a tree>"
PrintCommand(tokens, t) ==
  /\ Len(tokens) = 2
  /\ upper(tokens[1]) = "PRINT_TREE"
  /\ tokens[2] \in DOMAIN t
  /\ ~IsNone(t[tokens[2]].root)

\* C18: in aaf-lab-var2.py PRINT_TREE prints one line per node of the
\* tree in depth-first pre-order (node, left subtree, right subtree);
\* the line of a node at depth d is indented d levels (two spaces each)
\* and shows the node's bbox; 2n - 1 lines for a store of n >= 1
\* segments; the tree and the store are unchanged.
C18_PrintPreOrder ==
  /\ []( (variant = "var2" /\ pc = "report" /\ PrintCommand(cmd, trees)) =>
           LET nodes == PreOrder(trees[cmd[2]].root, 0) IN
           /\ Len(printed) = Len(nodes)
           /\ Len(printed) = 2 * Len(trees[cmd[2]].segments) - 1
           /\ \A i \in 1..Len(nodes) :
                /\ printed[i].indent = 2 * nodes[i][1]
                /\ printed[i].bbox = nodes[i][2].bbox )
  /\ [][ (variant = "var2" /\ pc' = "report" /\ PrintCommand(cmd', trees)) =>
           trees' = trees ]_vars

\* five lines were printed for a tree whose two children have different
\* boxes and whose right child is internal
C18_Witness ==
  /\ variant = "var2"
  /\ pc = "report"
  /\ PrintCommand(cmd, trees)
  /\ Len(printed) = 5
  /\ printed[2].bbox # printed[3].bbox
  /\ printed[2].indent = 2 /\ printed[4].indent = 4
  /\ result.msg = "Tree for {set_name} printed above"

(* ------------------------------- C19 ----------------------------------- *)
\* C19: in aaf-lab-var2.py the tree a set holds is the tree Build gives
\* for the set's whole insertion history, taken in insertion order:
\* same shape, same bbox at every node, same leaf segments in the same
\* places.
C19_TreeIsBuildOfHistory ==
  variant = "var2" =>
    \A n \in DOMAIN trees :
      hist[n] # <<>> => trees[n].root = _build_tree_recursive(hist[n]).node

\* a tree over three inserts whose store is no longer in insertion order
\* after the second insert already: the third build started from a list
\* the second one had reordered
C19_Witness ==
  \E n \in DOMAIN trees :
    /\ variant = "var2"
    /\ Len(hist[n]) = 3
    /\ hist[n][1][1] > hist[n][2][1]
    /\ hist[n][3][1] < hist[n][1][1]
    /\ trees[n].segments # hist[n]
    /\ ~IsNone(trees[n].root)

(* ------------------------------- C20 ----------------------------------- *)
\* C20: a command that names set A leaves the store and the tree of
\* every other set as they were.
C20_Isolation ==
  [][ (pc' = "report" /\ Len(cmd') >= 2) =>
        \A n \in DOMAIN trees :
          n # cmd'[2] => (n \in DOMAIN trees' /\ trees'[n] = trees[n]) ]_vars

\* an INSERT into one set succeeded while the other set holds segments
\* of its own
C20_Witness ==
  /\ pc = "report"
  /\ SegCommand(cmd, "INSERT", trees)
  /\ Added(result)
  /\ \E n \in DOMAIN trees :
       /\ n # cmd[2]
       /\ trees[n].segments # <<>>
       /\ result.nums \notin Range(trees[n].segments)

====
